---------------------------- MODULE Spec2Model ----------------------------
(***************************************************************************)
(* Model of Generative-Dog-Images.ipynb: the two layer stacks              *)
(* (make_generator_model, make_discriminator_model), train_step, and the   *)
(* submission packaging cell that writes images.zip.                       *)
(*                                                                         *)
(* Tensors are abstracted to their shape (without the batch axis) and one  *)
(* small integer standing for their numeric content; the archive is the    *)
(* sequence of entries of the file at zip_filename.                        *)
(***************************************************************************)
EXTENDS Integers, Sequences, FiniteSets

\* ------------------------------------------------------------------ bounds
MaxTotal == 12
MaxBatch == 4
MaxRuns == 2
MaxN == 2
MaxNoise == 1
MaxStale == 2
ParamMod == 2

\* ------------------------------------------------------- program constants
noise_dim == 100

NoiseVals == 0..MaxNoise
\* No tensor has a negative axis: the value stands for a raised shape mismatch
ShapeError == <<-1>>

\* ------------------------------------------------------------ layer stacks
RECURSIVE Product(_)
Product(s) == IF s = <<>> THEN 1 ELSE s[1] * Product(Tail(s))

Last(s) == s[Len(s)]

CeilDiv(a, b) == (a + b - 1) \div b

\* Sequential model of make_generator_model, one record per model.add(...)
GeneratorLayers ==
    << [kind |-> "Dense", units |-> 8 * 8 * 256],
       [kind |-> "BatchNormalization"],
       [kind |-> "LeakyReLU"],
       [kind |-> "Reshape", target |-> <<8, 8, 256>>],
       [kind |-> "Conv2DTranspose", filters |-> 128, stride |-> 2],
       [kind |-> "BatchNormalization"],
       [kind |-> "LeakyReLU"],
       [kind |-> "Conv2DTranspose", filters |-> 64, stride |-> 2],
       [kind |-> "BatchNormalization"],
       [kind |-> "LeakyReLU"],
       [kind |-> "Conv2DTranspose", filters |-> 3, stride |-> 1] >>

GeneratorInputShape == <<noise_dim>>

\* Sequential model of make_discriminator_model
DiscriminatorLayers ==
    << [kind |-> "Conv2D", filters |-> 64, stride |-> 2],
       [kind |-> "LeakyReLU"],
       [kind |-> "Dropout"],
       [kind |-> "Conv2D", filters |-> 128, stride |-> 2],
       [kind |-> "LeakyReLU"],
       [kind |-> "Dropout"],
       [kind |-> "Flatten"],
       [kind |-> "Dense", units |-> 1] >>

DiscriminatorInputShape == <<64, 64, 3>>

\* The real images of the data pipeline: decode_image resizes to 64x64, 3 channels
RealImageShape == <<64, 64, 3>>

\* Output shape of one layer on an input of shape s (padding='same' everywhere)
LayerShape(l, s) ==
    CASE l.kind = "Dense" -> SubSeq(s, 1, Len(s) - 1) \o <<l.units>>
      [] l.kind = "Reshape" ->
            IF Product(s) = Product(l.target) THEN l.target ELSE ShapeError
      [] l.kind = "Conv2DTranspose" ->
            IF Len(s) = 3 THEN <<s[1] * l.stride, s[2] * l.stride, l.filters>>
            ELSE ShapeError
      [] l.kind = "Conv2D" ->
            IF Len(s) = 3
            THEN <<CeilDiv(s[1], l.stride), CeilDiv(s[2], l.stride), l.filters>>
            ELSE ShapeError
      [] l.kind = "Flatten" -> <<Product(s)>>
      [] OTHER -> s

\* Layers whose weights were created for a fixed size of the last axis
HasWeights(l) ==
    l.kind \in {"Dense", "Conv2D", "Conv2DTranspose", "BatchNormalization"}

\* Shape of the output when the stack, built for declared shape b, is called on s:
\* a weighted layer rejects an input whose last axis differs from the one it was
\* built for.
RECURSIVE CallShape(_, _, _)
CallShape(layers, b, s) ==
    IF layers = <<>> THEN s
    ELSE LET l == Head(layers)
         IN  IF s = ShapeError \/ b = ShapeError THEN ShapeError
             ELSE IF HasWeights(l) /\ Last(s) # Last(b) THEN ShapeError
             ELSE CallShape(Tail(layers), LayerShape(l, b), LayerShape(l, s))

GeneratorOutputShape ==
    CallShape(GeneratorLayers, GeneratorInputShape, <<noise_dim>>)

DiscriminatorOutputShape(s) ==
    CallShape(DiscriminatorLayers, DiscriminatorInputShape, s)

\* ------------------------------------------------------------ the networks
\* generator(noise, training): the images' shape and content, and the generator
\* afterwards. BatchNormalization updates its moving statistics only when
\* training=True; the trainable parameters are never changed by a call.
GeneratorCall(gen, z, training) ==
    [ shape |-> GeneratorOutputShape,
      value |-> (gen.params + gen.bn + z) % ParamMod,
      generator |-> IF training
                    THEN [gen EXCEPT !.bn = (gen.bn + z + 1) % ParamMod]
                    ELSE gen ]

\* discriminator(images, training=True): one logit per image, or the shape error
DiscriminatorCall(disc, shape, value) ==
    IF DiscriminatorOutputShape(shape) = ShapeError THEN ShapeError
    ELSE <<(disc.params + value) % ParamMod>>

\* BinaryCrossentropy(from_logits=True)(target, logits), as a small integer
cross_entropy(target, logits) == (logits[1] + 1 + target) % ParamMod

\* tape.gradient(loss, variables): a function of the loss and the variables
Gradient(loss, params) == (loss + params + 1) % ParamMod

\* Adam.apply_gradients(zip(grads, variables)): the optimizer's own step count
\* and moment estimate, and the variables it was handed
AdamState(opt, grad) ==
    [iterations |-> opt.iterations + 1, m |-> (opt.m + grad) % ParamMod]

AdamParams(opt, grad, params) ==
    (params + ParamMod - ((AdamState(opt, grad).m + 1) % ParamMod)) % ParamMod

\* generator_optimizer.apply_gradients(zip(gradients_of_generator, generator.trainable_variables))
ApplyGenerator(m, grad) ==
    [m EXCEPT !.generator.params =
                   AdamParams(m.generator_optimizer, grad, m.generator.params),
              !.generator_optimizer = AdamState(m.generator_optimizer, grad)]

\* discriminator_optimizer.apply_gradients(zip(gradients_of_discriminator, discriminator.trainable_variables))
ApplyDiscriminator(m, grad) ==
    [m EXCEPT !.discriminator.params =
                   AdamParams(m.discriminator_optimizer, grad, m.discriminator.params),
              !.discriminator_optimizer = AdamState(m.discriminator_optimizer, grad)]

\* a batch of n real images from the data pipeline
RealBatch(n) == [n |-> n, shape |-> RealImageShape, value |-> n % ParamMod]

\* train_step, the with-tape block up to the three forward passes, on the models
\* m, a batch of real images and the noise z drawn by tf.random.normal: generator(noise, training=True) has already updated the
\* generator's moving statistics when a discriminator call raises.
StepForward(m, images, z) ==
    LET gen == GeneratorCall(m.generator, z, TRUE)
    IN  [ models |-> [m EXCEPT !.generator = gen.generator],
          real_output |-> DiscriminatorCall(m.discriminator, images.shape, images.value),
          fake_output |-> DiscriminatorCall(m.discriminator, gen.shape, gen.value) ]

\* gen_loss and disc_loss of a forward pass f
StepLosses(f) ==
    << cross_entropy(1, f.fake_output),
       (cross_entropy(1, f.real_output) + cross_entropy(0, f.fake_output)) % ParamMod >>

\* gradients_of_generator and gradients_of_discriminator, both taken before
\* either optimizer is applied
StepGradients(f) ==
    << Gradient(StepLosses(f)[1], f.models.generator.params),
       Gradient(StepLosses(f)[2], f.models.discriminator.params) >>

\* train_step(images): the models afterwards and what the call gave back. A shape
\* mismatch raises out of the step at the call that meets it, with everything
\* done before it kept.
TrainStepResult(m, images, z) ==
    LET f == StepForward(m, images, z)
    IN  IF f.real_output = ShapeError \/ f.fake_output = ShapeError
        THEN [ outcome |-> "raised", models |-> f.models, losses |-> <<>>,
               grad_noise |-> <<>>, applied |-> <<>> ]
        ELSE [ outcome |-> "returned",
               models |-> ApplyDiscriminator(
                              ApplyGenerator(f.models, StepGradients(f)[1]),
                              StepGradients(f)[2]),
               losses |-> StepLosses(f),
               grad_noise |-> <<z, z>>,
               applied |-> <<"generator", "discriminator">> ]

\* ---------------------------------------------------------------- file names
Digits == <<"0", "1", "2", "3", "4", "5", "6", "7", "8", "9">>

\* str(n) of a non-negative int, one character per element
RECURSIVE DecStr(_)
DecStr(n) ==
    IF n < 10 THEN <<Digits[n + 1]>>
    ELSE DecStr(n \div 10) \o <<Digits[(n % 10) + 1]>>

\* the name with the round's offset forgotten
ImgNameInRound(i, j) == DecStr(j) \o <<".", "p", "n", "g">>

\* img_name = f'{i+j}.png'
ImgName(i, j) == DecStr(i + j) \o <<".", "p", "n", "g">>

\* ------------------------------------------------------------------ state
VARIABLES
    num_images_to_generate,  \* TOTAL
    batch_size,              \* BATCH
    models,                  \* generator, discriminator and the two Adam optimizers
    last_step,               \* what the last train_step call did and gave back
    zip_file,                \* entries of the file at zip_filename
    img_zip,                 \* the ZipFile handle: "none", "open" or "closed"
    pkPc,                    \* position in the packaging cell
    i,                       \* offset of the round, range(0, TOTAL, BATCH)
    j,                       \* index in the round, range(BATCH)
    noise,                   \* noise of the round
    generated_images,        \* images of the round
    runs,                    \* packaging runs started
    rounds,                  \* rounds started in this run
    stdout                   \* the counts the success messages reported

vars == << num_images_to_generate, batch_size, models, last_step, zip_file,
           img_zip, pkPc, i, j, noise, generated_images, runs, rounds, stdout >>

pkVars == << zip_file, img_zip, pkPc, i, j, noise, generated_images, runs, rounds,
             stdout >>

\* make_generator_model(), make_discriminator_model(), Adam(1e-4) twice: freshly
\* initialised weights, optimizers that have made no step
InitialModels ==
    [ generator |-> [params |-> 0, bn |-> 0],
      discriminator |-> [params |-> 0],
      generator_optimizer |-> [iterations |-> 0, m |-> 0],
      discriminator_optimizer |-> [iterations |-> 0, m |-> 0] ]

NoStep ==
    [ outcome |-> "none", losses |-> <<>>, grad_noise |-> <<>>, applied |-> <<>>,
      before |-> InitialModels, after |-> InitialModels,
      images |-> RealBatch(0), noise |-> 0 ]

\* What an earlier program may have left at zip_filename
StaleFile(k) ==
    [t \in 1..k |-> [name |-> ImgName(0, t - 1), shape |-> RealImageShape,
                     run |-> 0, offset |-> 0, index |-> t - 1]]

Init ==
    /\ num_images_to_generate \in 1..MaxTotal
    /\ batch_size \in 1..MaxBatch
    /\ models = InitialModels
    /\ last_step = NoStep
    /\ \E k \in 0..MaxStale : zip_file = StaleFile(k)
    /\ img_zip = "none"
    /\ pkPc = "idle"
    /\ i = 0
    /\ j = 0
    /\ noise = 0
    /\ generated_images = <<>>
    /\ runs = 0
    /\ rounds = 0
    /\ stdout = <<>>

\* ------------------------------------------------------------- train_step
\* The driver calls train_step with a batch of n real images; training comes
\* before packaging, and the notebook runs one cell at a time.
TrainStep ==
    /\ pkPc = "idle"
    /\ \E n \in 1..MaxN, z \in NoiseVals :
          LET r == TrainStepResult(models, RealBatch(n), z)
          IN  /\ models' = r.models
              /\ last_step' = [ outcome |-> r.outcome, losses |-> r.losses,
                                grad_noise |-> r.grad_noise, applied |-> r.applied,
                                before |-> models, after |-> r.models,
                                images |-> RealBatch(n), noise |-> z ]
    /\ UNCHANGED << num_images_to_generate, batch_size >>
    /\ UNCHANGED pkVars

\* -------------------------------------------------------- packaging cell
\* mode 'a': what the file held is kept
OpenArchiveAppend(old) == old

\* zipfile.ZipFile(zip_filename, 'w'): mode 'w' truncates what the file held
OpenArchive(old) == <<>>

\* no with block: nothing closes the handle
WithExitLeak(h) == h

\* leaving the with block, normally or by an exception, closes the handle
WithExit(h) == "closed"

\* a last round cut down to what is left of TOTAL
RoundSizeShrunk(total, batch, offset) ==
    IF offset + batch > total THEN total - offset ELSE batch

\* images of one round: tf.random.normal([batch_size, noise_dim]) and range(batch_size)
RoundSize(total, batch, offset) == batch

\* generator(noise, training=True)
PackagingGeneratorTraining(gen, z) == GeneratorCall(gen, z, TRUE).generator

\* generator(noise, training=False) leaves the generator as it was
PackagingGenerator(gen, z) == GeneratorCall(gen, z, FALSE).generator

PkOpen ==
    /\ pkPc \in {"idle", "done", "raised"}
    /\ runs < MaxRuns
    /\ zip_file' = OpenArchive(zip_file)
    /\ img_zip' = "open"
    /\ i' = 0
    /\ pkPc' = "loop"
    /\ runs' = runs + 1
    /\ rounds' = 0
    /\ UNCHANGED << num_images_to_generate, batch_size, models, last_step,
                    j, noise, generated_images, stdout >>

PkGenerate ==
    /\ pkPc = "loop"
    /\ i < num_images_to_generate
    /\ \E z \in NoiseVals :
          LET out == GeneratorCall(models.generator, z, FALSE)
              size == RoundSize(num_images_to_generate, batch_size, i)
          IN  /\ noise' = z
              /\ generated_images' =
                     [k \in 1..size |-> [shape |-> out.shape, value |-> out.value]]
              /\ models' = [models EXCEPT
                               !.generator = PackagingGenerator(models.generator, z)]
    /\ j' = 0
    /\ pkPc' = "inner"
    /\ rounds' = rounds + 1
    /\ UNCHANGED << num_images_to_generate, batch_size, last_step, zip_file,
                    img_zip, i, runs, stdout >>

\* Image.fromarray, img.save(format='PNG'), img_zip.writestr(img_name, bytes).
\* After the last image of a round, i moves on to the next value of
\* range(0, TOTAL, BATCH); the range is exhausted once i >= TOTAL.
PkWrite ==
    /\ pkPc = "inner"
    /\ j < RoundSize(num_images_to_generate, batch_size, i)
    /\ zip_file' = Append(zip_file,
                          [ name |-> ImgName(i, j),
                            shape |-> generated_images[j + 1].shape,
                            run |-> runs, offset |-> i, index |-> j ])
    /\ IF j + 1 < RoundSize(num_images_to_generate, batch_size, i)
       THEN j' = j + 1 /\ UNCHANGED << i, pkPc >>
       ELSE j' = j /\ i' = i + batch_size /\ pkPc' = "loop"
    /\ UNCHANGED << num_images_to_generate, batch_size, models, last_step,
                    img_zip, noise, generated_images, runs, rounds, stdout >>

\* an exception inside the with block: the block is left, nothing after it runs
Raise ==
    /\ img_zip' = WithExit(img_zip)
    /\ pkPc' = "raised"
    /\ UNCHANGED << num_images_to_generate, batch_size, models, last_step,
                    zip_file, i, j, noise, generated_images, runs, rounds, stdout >>

PkGenerateFail ==
    /\ pkPc = "loop"
    /\ i < num_images_to_generate
    /\ Raise

PkEncodeFail ==
    /\ pkPc = "inner"
    /\ Raise

PkWriteFail ==
    /\ pkPc = "inner"
    /\ Raise

\* range exhausted: the with block ends, then the message is printed
PkClose ==
    /\ pkPc = "loop"
    /\ i >= num_images_to_generate
    /\ img_zip' = WithExit(img_zip)
    /\ stdout' = Append(stdout, num_images_to_generate)
    /\ pkPc' = "done"
    /\ UNCHANGED << num_images_to_generate, batch_size, models, last_step,
                    zip_file, i, j, noise, generated_images, runs, rounds >>

Next ==
    \/ TrainStep
    \/ PkOpen
    \/ PkGenerate
    \/ PkWrite
    \/ PkGenerateFail
    \/ PkEncodeFail
    \/ PkWriteFail
    \/ PkClose

Spec == Init /\ [][Next]_vars

\* ------------------------------------------------------------------ claims
Entries == {zip_file[t] : t \in 1..Len(zip_file)}

DigitVal(c) == CHOOSE d \in 0..9 : Digits[d + 1] = c

RECURSIVE ParseDec(_)
ParseDec(ds) ==
    IF Len(ds) = 1 THEN DigitVal(ds[1])
    ELSE 10 * ParseDec(SubSeq(ds, 1, Len(ds) - 1)) + DigitVal(ds[Len(ds)])

\* name is the decimal numeral of k, without leading zeros, followed by ".png"
IsPngNameOf(name, k) ==
    /\ Len(name) >= 5
    /\ SubSeq(name, Len(name) - 3, Len(name)) = <<".", "p", "n", "g">>
    /\ \A t \in 1..(Len(name) - 4) : \E d \in 0..9 : Digits[d + 1] = name[t]
    /\ (Len(name) > 5 => name[1] # "0")
    /\ ParseDec(SubSeq(name, 1, Len(name) - 4)) = k

\* the archive holds, once each, the names 0.png .. (n-1).png and nothing else
HoldsExactly(n) ==
    /\ Len(zip_file) = n
    /\ \A k \in 0..(n - 1) :
          Cardinality({t \in 1..Len(zip_file) : IsPngNameOf(zip_file[t].name, k)}) = 1

Divides == num_images_to_generate % batch_size = 0

\* C1: when BATCH divides TOTAL, the closed archive of a finished packaging run
\* holds exactly TOTAL entries, named 0.png .. (TOTAL-1).png with no gap and no
\* duplicate, and the j-th image of the round at offset i is named <i+j>.png.
C1_ArchiveNames ==
    (pkPc = "done" /\ Divides) =>
        /\ img_zip = "closed"
        /\ HoldsExactly(num_images_to_generate)
        /\ \A e \in Entries : IsPngNameOf(e.name, e.offset + e.index)

C1_Witness ==
    /\ pkPc = "done"
    /\ Divides
    /\ num_images_to_generate >= 11
    /\ batch_size >= 2
    /\ rounds >= 3
    /\ \E e \in Entries : e.offset > 0 /\ e.index > 0 /\ IsPngNameOf(e.name, 11)

\* the least r with r * BATCH >= TOTAL, i.e. ceil(TOTAL / BATCH)
IsCeilRounds(r) ==
    /\ r * batch_size >= num_images_to_generate
    /\ (r - 1) * batch_size < num_images_to_generate

\* C9: for every TOTAL >= 1 and BATCH >= 1 a finished packaging run has made
\* ceil(TOTAL/BATCH) rounds of BATCH images each, the archive holds
\* ceil(TOTAL/BATCH)*BATCH entries named 0.png upwards (more than TOTAL when
\* BATCH does not divide TOTAL), and the message printed reports TOTAL.
C9_FullRounds ==
    pkPc = "done" =>
        /\ IsCeilRounds(rounds)
        /\ \A r \in 0..(rounds - 1) :
              Cardinality({t \in 1..Len(zip_file) :
                              zip_file[t].offset = r * batch_size}) = batch_size
        /\ HoldsExactly(rounds * batch_size)
        /\ (~Divides => Len(zip_file) > num_images_to_generate)
        /\ stdout # <<>>
        /\ stdout[Len(stdout)] = num_images_to_generate

C9_Witness ==
    /\ pkPc = "done"
    /\ ~Divides
    /\ rounds >= 2
    /\ Len(zip_file) > num_images_to_generate
    /\ stdout[Len(stdout)] = num_images_to_generate

\* C4 (as amended): opening the archive discards what the file held, so the
\* archive never holds an entry of an earlier run or of an earlier program, and
\* after a second finished run it holds ceil(TOTAL/BATCH)*BATCH entries (TOTAL
\* when BATCH divides TOTAL), not twice as many.
C4_Overwrites ==
    /\ runs >= 1 => \A e \in Entries : e.run = runs
    /\ (pkPc = "done" /\ runs >= 2) =>
          /\ \E r \in 1..num_images_to_generate :
                IsCeilRounds(r) /\ Len(zip_file) = r * batch_size
          /\ (Divides => Len(zip_file) = num_images_to_generate)

C4_Witness ==
    /\ pkPc = "done"
    /\ runs = 2
    /\ Len(stdout) = 2
    /\ Len(zip_file) >= 2
    /\ \A e \in Entries : e.run = 2

\* C4 (as stated): after the second run the archive has exactly TOTAL entries and
\* no entry of the first run, and pre-existing content is discarded on opening.
C4_AsStated ==
    /\ runs >= 1 => \A e \in Entries : e.run = runs
    /\ (pkPc = "done" /\ runs >= 2) => Len(zip_file) = num_images_to_generate

\* C7: the archive handle is closed on every exit path of the packaging routine,
\* a failure in generation, encoding or writing leaves the routine for good
\* (nothing more is written, no success message is printed for the run) and the
\* archive then holds what was written before the failure.
C7_HandleReleased ==
    /\ [](/\ pkPc \in {"done", "raised"} => img_zip = "closed"
          /\ pkPc = "raised" => Len(stdout) < runs)
    /\ [][pkPc = "raised" =>
             \/ pkPc' = "raised" /\ zip_file' = zip_file /\ stdout' = stdout
             \/ runs' = runs + 1]_vars

C7_Witness ==
    /\ pkPc = "raised"
    /\ img_zip = "closed"
    /\ rounds >= 2
    /\ Len(zip_file) > 0
    /\ Len(zip_file) < num_images_to_generate

\* a step of the packaging routine: it starts a run or is taken inside one
PackagingStep == runs' = runs + 1 \/ pkPc \in {"loop", "inner"}

\* C8: no step of the packaging routine changes the generator, the
\* discriminator or either optimizer (nor anything else but the archive, its
\* handle, the message and the routine's own locals).
C8_ModelsUntouched ==
    [][PackagingStep =>
          /\ models' = models
          /\ last_step' = last_step
          /\ num_images_to_generate' = num_images_to_generate
          /\ batch_size' = batch_size]_vars

C8_Witness ==
    /\ pkPc = "done"
    /\ rounds >= 2
    /\ Len(zip_file) >= 2
    /\ last_step.outcome # "none"
    /\ models = last_step.after
    /\ models.generator.bn # 0

\* the resolution the notebook's Submission Format section asks for
SubmissionShape == <<64, 64, 3>>

\* C2: every image the packaging routine generates and writes has the
\* resolution 64x64x3, the generator's output shape, written unchanged.
C2_Resolution ==
    /\ \A k \in 1..Len(generated_images) : generated_images[k].shape = SubmissionShape
    /\ \A e \in Entries : e.run >= 1 => e.shape = SubmissionShape

StepEnded == last_step.outcome # "none"

\* C3: a train_step call on N >= 1 real images of shape 64x64x3 completes
\* without a shape mismatch, returns two loss values and applies exactly one
\* update of each optimizer.
C3_StepCompletes ==
    StepEnded =>
        /\ last_step.outcome = "returned"
        /\ Len(last_step.losses) = 2
        /\ last_step.after.generator_optimizer.iterations =
               last_step.before.generator_optimizer.iterations + 1
        /\ last_step.after.discriminator_optimizer.iterations =
               last_step.before.discriminator_optimizer.iterations + 1

\* C5: in a train_step both gradients are derived from the one noise batch the
\* step drew, and the step's two optimizer applications each change their own
\* network and optimizer only.
C5_SameNoiseOwnNetwork ==
    StepEnded =>
        /\ last_step.grad_noise = <<last_step.noise, last_step.noise>>
        /\ last_step.applied = <<"generator", "discriminator">>
        /\ LET f == StepForward(last_step.before, last_step.images, last_step.noise)
               g == ApplyGenerator(f.models, StepGradients(f)[1])
               d == ApplyDiscriminator(g, StepGradients(f)[2])
           IN  /\ g.discriminator = f.models.discriminator
               /\ g.discriminator_optimizer = f.models.discriminator_optimizer
               /\ d.generator = g.generator
               /\ d.generator_optimizer = g.generator_optimizer
               /\ last_step.after = d

\* C6: a train_step completes both forward passes, both losses and both
\* gradients before either optimizer application, so the losses it returns and
\* the gradients it applies are those of the parameters the step started with.
C6_GradientsBeforeUpdates ==
    StepEnded =>
        /\ last_step.outcome = "returned"
        /\ LET f == StepForward(last_step.before, last_step.images, last_step.noise)
           IN  /\ f.models.generator.params = last_step.before.generator.params
               /\ f.models.discriminator.params = last_step.before.discriminator.params
               /\ last_step.losses = StepLosses(f)
               /\ last_step.after.generator_optimizer =
                      AdamState(last_step.before.generator_optimizer, StepGradients(f)[1])
               /\ last_step.after.discriminator_optimizer =
                      AdamState(last_step.before.discriminator_optimizer,
                                StepGradients(f)[2])

\* C10: the state a train_step leaves is the one its two optimizer applications
\* give in either order.
C10_UpdatesCommute ==
    StepEnded =>
        LET f == StepForward(last_step.before, last_step.images, last_step.noise)
            gg == StepGradients(f)[1]
            dg == StepGradients(f)[2]
        IN  /\ last_step.after = ApplyDiscriminator(ApplyGenerator(f.models, gg), dg)
            /\ last_step.after = ApplyGenerator(ApplyDiscriminator(f.models, dg), gg)

=============================================================================
